---- MODULE Spec2Model ----
(***************************************************************************)
(* Lead extraction, deduplication and scoring pipeline of                  *)
(* reddit_tutor_automation_v2.py.                                          *)
(*                                                                         *)
(* Python strings are TLA+ strings (TLC evaluates Len, SubSeq and \o on    *)
(* them), so keyword matching is real substring containment over the real *)
(* keyword tables.  Times are whole hours counted from 2024-01-01 00:00.   *)
(***************************************************************************)
EXTENDS Integers, Sequences, FiniteSets, TLC

(***************************************************************************)
(* Bounds of the model.                                                    *)
(***************************************************************************)
\* pipeline runs (processes started one after the other) that are explored
MaxRuns == 2
\* how many entries of TARGET_SUBREDDITS (taken from the front) are visited
NumSubs == 2
\* how many posts one listing yields at most (the code asks for limit=50)
MaxYield == 2
\* hour at which the first run starts
FirstNow == 100
\* largest num_comments drawn for the scoring function
MaxComments == 15
\* how many of the sorted leads get a message in whole runs: the code's
\* TopN scaled down, so that runs with more leads than that exist
EnrichLimit == 2
\* longest sorted list handed to the enrichment loop on its own
MaxEnrichLeads == 16
\* most fragments a text handed to the detectors is made of
MaxFragments == 2

(***************************************************************************)
(* Configuration tables.                                                   *)
(***************************************************************************)
TARGET_SUBREDDITS ==
    << "tutoring", "HomeworkHelp", "learnmath", "askmath", "MathHelp",
       "APStudents", "GCSE", "6thForm", "igcse", "IBO" >>

KEYWORDS ==
    << "math tutor", "mathematics tutor", "maths help", "need math help",
       "looking for tutor", "algebra help", "calculus tutor",
       "geometry tutor", "statistics help", "maths teacher", "online tutor" >>

\* the dict of the source, in insertion order: << level, keywords >>
GRADE_KEYWORDS ==
    << << "elementary",
          << "year 2", "year 3", "year 4", "year 5", "year 6", "primary",
             "elementary", "grade 2", "grade 3", "grade 4", "grade 5" >> >>,
       << "middle",
          << "year 7", "year 8", "year 9", "middle school", "gcse",
             "grade 6", "grade 7", "grade 8" >> >>,
       << "high",
          << "year 10", "year 11", "year 12", "year 13", "a-level",
             "a level", "high school", "igcse", "ib", "grade 9", "grade 10",
             "grade 11", "grade 12" >> >> >>

urgency_keywords ==
    << "urgent", "asap", "exam tomorrow", "test tomorrow", "due tomorrow",
       "help now", "need help now" >>

parent_words ==
    << "my son", "my daughter", "my child", "my kid", "my children" >>

payment_words ==
    << "pay", "rate", "price", "cost", "budget", "hourly", "per hour" >>

\* the dict of extract_topics, in insertion order: << topic, keywords >>
topic_keywords ==
    << << "algebra",
          << "algebra", "equation", "variable", "expression", "quadratic" >> >>,
       << "calculus",
          << "calculus", "derivative", "integral", "limit",
             "differentiation" >> >>,
       << "geometry",
          << "geometry", "triangle", "circle", "angle", "polygon" >> >>,
       << "trigonometry",
          << "trigonometry", "sine", "cosine", "trig", "tan" >> >>,
       << "statistics",
          << "statistics", "probability", "mean", "median", "data" >> >>,
       << "arithmetic",
          << "addition", "subtraction", "multiplication", "division",
             "fractions", "decimals" >> >> >>

\* search_posts(hours_back=24)
HoursBack == 24

\* num_to_process = min(len(leads), 15)
TopN == 15

(***************************************************************************)
(* Python string operations.                                               *)
(***************************************************************************)
\* kw in text
Contains(text, kw) ==
    \E k \in 1..(Len(text) - Len(kw) + 1) : SubSeq(text, k, k + Len(kw) - 1) = kw

\* any(kw in text for kw in kws)
AnyIn(kws, text) == \E k \in DOMAIN kws : Contains(text, kws[k])

UpperToLower ==
    [ c \in { "A", "B", "C", "D", "E", "F", "G", "H", "I", "J", "K", "L", "M",
              "N", "O", "P", "Q", "R", "S", "T", "U", "V", "W", "X", "Y", "Z" } |->
      CASE c = "A" -> "a" [] c = "B" -> "b" [] c = "C" -> "c" [] c = "D" -> "d"
        [] c = "E" -> "e" [] c = "F" -> "f" [] c = "G" -> "g" [] c = "H" -> "h"
        [] c = "I" -> "i" [] c = "J" -> "j" [] c = "K" -> "k" [] c = "L" -> "l"
        [] c = "M" -> "m" [] c = "N" -> "n" [] c = "O" -> "o" [] c = "P" -> "p"
        [] c = "Q" -> "q" [] c = "R" -> "r" [] c = "S" -> "s" [] c = "T" -> "t"
        [] c = "U" -> "u" [] c = "V" -> "v" [] c = "W" -> "w" [] c = "X" -> "x"
        [] c = "Y" -> "y" [] c = "Z" -> "z" ]

RECURSIVE Lower(_)
\* str.lower()
Lower(s) ==
    IF Len(s) = 0 THEN ""
    ELSE LET c == SubSeq(s, 1, 1)
         IN  (IF c \in DOMAIN UpperToLower THEN UpperToLower[c] ELSE c)
                 \o Lower(SubSeq(s, 2, Len(s)))

RECURSIVE Join(_, _)
\* sep.join(parts)
Join(sep, parts) ==
    IF Len(parts) = 0 THEN ""
    ELSE IF Len(parts) = 1 THEN parts[1]
    ELSE parts[1] \o sep \o Join(sep, Tail(parts))

RECURSIVE SplitLen(_, _)
\* len(s.split(sep)): one more than the occurrences of sep found left to right
SplitLen(s, sep) ==
    IF ~Contains(s, sep) THEN 1
    ELSE LET k == CHOOSE k \in 1..Len(s) :
                      /\ SubSeq(s, k, k + Len(sep) - 1) = sep
                      /\ \A m \in 1..(k - 1) : SubSeq(s, m, m + Len(sep) - 1) # sep
         IN  1 + SplitLen(SubSeq(s, k + Len(sep), Len(s)), sep)

Digits == { "0", "1", "2", "3", "4", "5", "6", "7", "8", "9" }

DigitVal ==
    [ c \in Digits |->
      CASE c = "0" -> 0 [] c = "1" -> 1 [] c = "2" -> 2 [] c = "3" -> 3
        [] c = "4" -> 4 [] c = "5" -> 5 [] c = "6" -> 6 [] c = "7" -> 7
        [] c = "8" -> 8 [] c = "9" -> 9 ]

DigitChar == << "1", "2", "3", "4", "5", "6", "7", "8", "9" >>

IsDigits(s) == Len(s) > 0 /\ \A k \in 1..Len(s) : SubSeq(s, k, k) \in Digits

RECURSIVE ParseInt(_)
ParseInt(s) ==
    IF Len(s) = 0 THEN 0
    ELSE 10 * ParseInt(SubSeq(s, 1, Len(s) - 1)) + DigitVal[SubSeq(s, Len(s), Len(s))]

RECURSIVE FormatInt(_)
FormatInt(n) ==
    LET d == IF n % 10 = 0 THEN "0" ELSE DigitChar[n % 10]
    IN  IF n < 10 THEN d ELSE FormatInt(n \div 10) \o d

\* "%02d"
TwoDigits(n) == IF n < 10 THEN "0" \o FormatInt(n) ELSE FormatInt(n)

\* strftime("%Y-%m-%d %H:%M") of an hour of January 2024
FormatTime(h) ==
    "2024-01-" \o TwoDigits((h \div 24) + 1) \o " " \o TwoDigits(h % 24) \o ":00"

(***************************************************************************)
(* RedditLeadFinder: the text signal detectors and the lead record.        *)
(***************************************************************************)
RECURSIVE LastLevel(_, _)
\* FirstLevel when a later level of the table overrides an earlier one
LastLevel(table, text) ==
    IF Len(table) = 0 THEN "unknown"
    ELSE LET rest == LastLevel(Tail(table), text)
         IN  IF rest # "unknown" THEN rest
             ELSE IF AnyIn(table[1][2], text) THEN table[1][1]
             ELSE "unknown"

RECURSIVE FirstLevel(_, _)
\* for level, keywords in GRADE_KEYWORDS.items(): if any(...): return level
FirstLevel(table, text) ==
    IF Len(table) = 0 THEN "unknown"
    ELSE IF AnyIn(table[1][2], text) THEN table[1][1]
    ELSE FirstLevel(Tail(table), text)

detect_grade_level(text) == FirstLevel(GRADE_KEYWORDS, text)

RECURSIVE MatchedTopics(_, _)
MatchedTopics(table, text) ==
    IF Len(table) = 0 THEN << >>
    ELSE (IF AnyIn(table[1][2], text) THEN << table[1][1] >> ELSE << >>)
             \o MatchedTopics(Tail(table), text)

\* extract_topics when the default is appended to every list
extract_topics_with_default(text) ==
    MatchedTopics(topic_keywords, text) \o << "general mathematics" >>

extract_topics(text) ==
    LET topics == MatchedTopics(topic_keywords, text)
    IN  IF Len(topics) > 0 THEN topics ELSE << "general mathematics" >>

\* (post.title + " " + post.selftext).lower()
PostText(post) == Lower(post.title \o " " \o post.selftext)

extract_lead_data(post) ==
    LET post_text == PostText(post)
    IN  [ post_id           |-> post.id,
          subreddit         |-> post.subreddit,
          title             |-> post.title,
          content           |-> post.selftext,
          author            |-> post.author,
          url               |-> "https://reddit.com" \o post.permalink,
          created_utc       |-> FormatTime(post.created_utc),
          grade_level       |-> detect_grade_level(post_text),
          is_urgent         |-> AnyIn(urgency_keywords, post_text),
          is_parent         |-> AnyIn(parent_words, post_text),
          topics            |-> Join(", ", extract_topics(post_text)),
          mentions_payment  |-> AnyIn(payment_words, post_text),
          score             |-> post.score,
          num_comments      |-> post.num_comments,
          priority_score    |-> 0,
          generated_message |-> "",
          status            |-> "New",
          response_received |-> "No",
          notes             |-> "" ]

(***************************************************************************)
(* Lead scoring.                                                           *)
(***************************************************************************)
Min(a, b) == IF a < b THEN a ELSE b
Max(a, b) == IF a > b THEN a ELSE b

\* CommentAdjust with the penalty starting at 10 comments instead of 11
CommentAdjustFrom10(score, n) ==
    IF 1 <= n /\ n <= 5 THEN score + 1
    ELSE IF n >= 10 THEN score - 1
    ELSE score

\* if 1 <= num_comments <= 5: score += 1 / elif num_comments > 10: score -= 1
CommentAdjust(score, n) ==
    IF 1 <= n /\ n <= 5 THEN score + 1
    ELSE IF n > 10 THEN score - 1
    ELSE score

\* if len(lead['topics'].split(", ")) > 1: score += 1
TopicAdjust(score, topics) ==
    IF SplitLen(topics, ", ") > 1 THEN score + 1 ELSE score

\* Clamp without its upper limit
ClampLowOnly(score) == Max(score, 1)

\* min(max(score, 1), 10)
Clamp(score) == Min(Max(score, 1), 10)

score_lead(lead) ==
    LET s0 == 5
        s1 == IF lead.is_urgent THEN s0 + 2 ELSE s0
        s2 == TopicAdjust(s1, lead.topics)
        s3 == IF lead.is_parent THEN s2 + 1 ELSE s2
        s4 == IF lead.mentions_payment THEN s3 + 1 ELSE s3
        s5 == CommentAdjust(s4, lead.num_comments)
    IN  Clamp(s5)

(***************************************************************************)
(* The world outside the program: the posts the source may yield, the      *)
(* replies of the message generator, the time between two runs.            *)
(***************************************************************************)
\* hours that pass between two runs
RunGaps == { 0, 30 }

\* what a listing may yield; subreddit is filled in by the listing
PostPool ==
    { [ id |-> "abc123", title |-> "Looking for tutor",
        selftext |->
            "My son needs urgent algebra and calculus help, happy to pay hourly",
        author |-> "dad42", permalink |-> "/r/t/abc123", created_utc |-> 90,
        score |-> 3, num_comments |-> 3 ],
      [ id |-> "k7x", title |-> "online tutor wanted", selftext |-> "",
        author |-> "None", permalink |-> "/r/t/k7x", created_utc |-> 90,
        score |-> 1, num_comments |-> 15 ],
      [ id |-> "77", title |-> "Maths help please", selftext |-> "fractions",
        author |-> "kid7", permalink |-> "/r/t/77", created_utc |-> 90,
        score |-> 0, num_comments |-> 12 ],
      [ id |-> "old9", title |-> "math tutor needed", selftext |-> "",
        author |-> "ann", permalink |-> "/r/t/old9", created_utc |-> 50,
        score |-> 2, num_comments |-> 1 ],
      [ id |-> "k7x", title |-> "Homework question", selftext |-> "",
        author |-> "None", permalink |-> "/r/t/k7x", created_utc |-> 90,
        score |-> 1, num_comments |-> 15 ] }

\* what model.generate_content does: it raises with a message, or replies
GenOutcomes ==
    { [ raised |-> FALSE, text |-> " Happy to help, DM me for a free trial. " ],
      [ raised |-> TRUE, text |-> "429 quota exceeded" ] }

(***************************************************************************)
(* processed_leads.csv and the values pandas reads from and writes to it.  *)
(***************************************************************************)
\* Python values held in processed_ids: str or int
StrVal(s) == << "str", s >>
IntVal(n) == << "int", n >>

NoFile == [ exists |-> FALSE, rows |-> {} ]

\* DataFrame.to_csv: the text written for one value of the post_id column
CsvCell(v) == IF v[1] = "int" THEN FormatInt(v[2]) ELSE v[2]

\* pd.read_csv(...)['post_id'].tolist(): the column's type is inferred from
\* all its cells, a column of digit strings is read as integers
read_csv_post_ids(f) ==
    IF f.rows # {} /\ \A c \in f.rows : IsDigits(c)
    THEN { IntVal(ParseInt(c)) : c \in f.rows }
    ELSE { StrVal(c) : c \in f.rows }

load_processed_ids(f) == IF f.exists THEN read_csv_post_ids(f) ELSE {}

\* all_processed.to_csv('processed_leads.csv')
save_processed_ids(ids) == [ exists |-> TRUE, rows |-> { CsvCell(v) : v \in ids } ]

(***************************************************************************)
(* leads.sort(key=priority_score, reverse=True): stable.                   *)
(***************************************************************************)
RECURSIVE InsertBeforeTies(_, _)
\* InsertDesc when x goes in front of the records of equal score
InsertBeforeTies(sorted, x) ==
    IF Len(sorted) = 0 THEN << x >>
    ELSE IF sorted[1].priority_score > x.priority_score
         THEN << sorted[1] >> \o InsertBeforeTies(Tail(sorted), x)
         ELSE << x >> \o sorted

RECURSIVE InsertDesc(_, _)
\* x goes behind every record whose score is not smaller
InsertDesc(sorted, x) ==
    IF Len(sorted) = 0 THEN << x >>
    ELSE IF sorted[1].priority_score >= x.priority_score
         THEN << sorted[1] >> \o InsertDesc(Tail(sorted), x)
         ELSE << x >> \o sorted

RECURSIVE SortFrom(_, _)
SortFrom(sorted, rest) ==
    IF Len(rest) = 0 THEN sorted
    ELSE SortFrom(InsertDesc(sorted, rest[1]), Tail(rest))

SortDesc(s) == SortFrom(<< >>, s)

(***************************************************************************)
(* State.                                                                  *)
(***************************************************************************)
VARIABLES
    pc,             \* where main() is
    run,            \* number of the run (process) under way
    now,            \* datetime.now() of the run, in hours
    creds,          \* which of the environment's credentials are set
    file,           \* processed_leads.csv
    exported,       \* the lead collection this run has written, << >> before
    emitted,        \* history: how many exported records carry each post id
    leads,          \* finder.leads, the list main() sorts and exports
    processed_ids,  \* finder.processed_ids
    sub,            \* index of the subreddit of the for loop
    yielded,        \* posts the current listing has yielded
    post,           \* << the post under examination >>, or << >>
    i,              \* index of the scoring loop, then of the enrichment loop
    startFile,      \* history: processed_leads.csv as the run found it
    loaded,         \* history: what load_processed_ids returned in this run
    requests,       \* history: subreddits asked for in this run, in order
    errors,         \* history: indices of the subreddits that raised
    collected,      \* history: the scored leads as they were before the sort
    genCalls,       \* history: the generator's calls: post id, whether it raised
    skipped,        \* history: ids this run skipped as too old or irrelevant
    limit,          \* the cap of num_to_process: EnrichLimit or TopN
    sleeps,         \* history: how often this run has slept between listings
    scored,         \* history: post ids in the order ScoreLead wrote a score
    arg,            \* scoring function alone: the lead it is called with
    topicList,      \* scoring function alone: the list joined into arg.topics
    ret,            \* scoring function alone: << its result >>, << >> before
    text,           \* text detectors alone: the lower-cased text
    detected        \* text detectors alone: << grade, topics >>, << >> before

pipelineVars ==
    << pc, run, now, creds, file, exported, emitted, leads, processed_ids,
       sub, yielded, post, i, startFile, loaded, requests, errors, collected,
       genCalls, skipped, limit, sleeps, scored >>
scoreVars == << arg, topicList, ret >>
textVars == << text, detected >>
vars == << pipelineVars, scoreVars, textVars >>

PoolIds == { p.id : p \in PostPool }

\* number of records of the list ls that carry the post id
CountId(ls, id) == Cardinality({ k \in DOMAIN ls : ls[k].post_id = id })

Subs == SubSeq(TARGET_SUBREDDITS, 1, NumSubs)

Credentials ==
    [ client_id : BOOLEAN, client_secret : BOOLEAN, user_agent : BOOLEAN,
      gemini_api_key : BOOLEAN ]

Terminal == { "aborted", "crashed", "noleads", "done" }

NoArg ==
    [ is_urgent |-> FALSE, is_parent |-> FALSE, mentions_payment |-> FALSE,
      topics |-> "general mathematics", num_comments |-> 0 ]

\* a process that starts with processed_leads.csv being f
PipelineStart(f) ==
    /\ pc = "start"
    /\ run = 1
    /\ now = FirstNow
    /\ creds \in Credentials
    /\ file = f
    /\ exported = << >>
    /\ emitted = [ id \in PoolIds |-> 0 ]
    /\ leads = << >>
    /\ processed_ids = {}
    /\ sub = 0
    /\ yielded = 0
    /\ post = << >>
    /\ i = 0
    /\ startFile = f
    /\ loaded = {}
    /\ requests = << >>
    /\ errors = {}
    /\ collected = << >>
    /\ genCalls = << >>
    /\ skipped = {}
    /\ sleeps = 0
    /\ scored = << >>

\* the first start: no processed_leads.csv yet
PipelineInit == PipelineStart(NoFile)

\* the variables of score_lead alone, at rest
ScoreIdle ==
    /\ arg = NoArg
    /\ topicList = << "general mathematics" >>
    /\ ret = << >>

\* the variables of the text detectors alone, at rest
TextIdle ==
    /\ text = ""
    /\ detected = << >>

Init ==
    /\ PipelineInit
    /\ limit = EnrichLimit
    /\ ScoreIdle
    /\ TextIdle

(***************************************************************************)
(* main(): credentials and construction of the finder.                     *)
(***************************************************************************)
\* CredentialsValid with any() in the place of all()
CredentialsAny(c) == c.client_id \/ c.client_secret \/ c.gemini_api_key

\* all([client_id, client_secret, GEMINI_API_KEY])
CredentialsValid(c) == c.client_id /\ c.client_secret /\ c.gemini_api_key

CheckCredentials ==
    /\ pc = "start"
    /\ pc' = IF CredentialsValid(creds) THEN "construct" ELSE "aborted"
    /\ UNCHANGED << run, now, creds, file, exported, emitted, leads,
                    processed_ids, sub, yielded, post, i, loaded, requests,
                    errors, collected, genCalls, skipped, startFile,
                    scoreVars, textVars, limit, sleeps, scored >>

\* praw.Reddit(**REDDIT_CONFIG) raises when user_agent is None: main() does
\* not test REDDIT_USER_AGENT, and nothing catches the exception
ConstructRaises ==
    /\ pc = "construct"
    /\ ~creds.user_agent
    /\ pc' = "crashed"
    /\ UNCHANGED << run, now, creds, file, exported, emitted, leads,
                    processed_ids, sub, yielded, post, i, loaded, requests,
                    errors, collected, genCalls, skipped, startFile,
                    scoreVars, textVars, limit, sleeps, scored >>

\* RedditLeadFinder.__init__, then the entry of search_posts
Construct ==
    /\ pc = "construct"
    /\ creds.user_agent
    /\ leads' = << >>
    /\ processed_ids' = load_processed_ids(file)
    /\ loaded' = load_processed_ids(file)
    /\ sub' = 1
    /\ pc' = "search"
    /\ UNCHANGED << run, now, creds, file, exported, emitted, yielded,
                    post, i, requests, errors, collected, genCalls,
                    skipped, startFile, scoreVars, textVars, limit, sleeps,
                    scored >>

(***************************************************************************)
(* search_posts.                                                           *)
(***************************************************************************)
\* for subreddit_name in TARGET_SUBREDDITS: ... subreddit.new(limit=50)
RequestListing ==
    /\ pc = "search"
    /\ sub <= NumSubs
    /\ requests' = Append(requests, Subs[sub])
    /\ yielded' = 0
    /\ pc' = "iter"
    /\ UNCHANGED << run, now, creds, file, exported, emitted, leads,
                    processed_ids, sub, post, i, loaded, errors, collected,
                    genCalls, skipped, startFile, scoreVars, textVars,
                    limit, sleeps, scored >>

\* the listing yields its next post
Yield(p) ==
    /\ pc = "iter"
    /\ yielded < MaxYield
    /\ post' = << [ id |-> p.id, subreddit |-> Subs[sub], title |-> p.title,
                    selftext |-> p.selftext, author |-> p.author,
                    permalink |-> p.permalink, created_utc |-> p.created_utc,
                    score |-> p.score, num_comments |-> p.num_comments ] >>
    /\ yielded' = yielded + 1
    /\ pc' = "check"
    /\ UNCHANGED << run, now, creds, file, exported, emitted, leads,
                    processed_ids, sub, i, loaded, requests, errors,
                    collected, genCalls, skipped, startFile, scoreVars,
                    textVars, limit, sleeps, scored >>

IsDuplicate(p, ids) == StrVal(p.id) \in ids
\* post_time < cutoff_time
IsTooOld(p, t) == p.created_utc < t - HoursBack
IsRelevant(p) == AnyIn(KEYWORDS, PostText(p))

\* what the loop body appends to leads for post p
Accepted(p, ids, t) ==
    IF ~IsDuplicate(p, ids) /\ ~IsTooOld(p, t) /\ IsRelevant(p)
    THEN << extract_lead_data(p) >>
    ELSE << >>

\* Marked when the id is never added
MarkedNone(p, ids, t) == {}

\* Marked when the id is added before the recency and keyword tests
MarkedOnSight(p, ids, t) == { StrVal(p.id) }

\* what the loop body adds to processed_ids for post p
Marked(p, ids, t) ==
    IF ~IsDuplicate(p, ids) /\ ~IsTooOld(p, t) /\ IsRelevant(p)
    THEN { StrVal(p.id) }
    ELSE {}

\* the body of the loop over the listing, for the post just yielded
ProcessPost ==
    /\ pc = "check"
    /\ leads' = leads \o Accepted(post[1], processed_ids, now)
    /\ processed_ids' = processed_ids \cup Marked(post[1], processed_ids, now)
    /\ skipped' = IF ~IsDuplicate(post[1], processed_ids)
                      /\ (IsTooOld(post[1], now) \/ ~IsRelevant(post[1]))
                  THEN skipped \cup { post[1].id }
                  ELSE skipped
    /\ post' = << >>
    /\ pc' = "iter"
    /\ UNCHANGED << run, now, creds, file, exported, emitted, sub, yielded,
                    i, loaded, requests, errors, collected, genCalls,
                    startFile, scoreVars, textVars, limit, sleeps, scored >>

\* the listing is exhausted: the loop ends, time.sleep(2) is next
ListingEnds ==
    /\ pc = "iter"
    /\ pc' = "sleep"
    /\ UNCHANGED << run, now, creds, file, exported, emitted, leads,
                    processed_ids, sub, yielded, post, i, loaded, requests,
                    errors, collected, genCalls, skipped, startFile,
                    scoreVars, textVars, limit, sleeps, scored >>

\* time.sleep(2), then the next subreddit
Sleep ==
    /\ pc = "sleep"
    /\ sub' = sub + 1
    /\ sleeps' = sleeps + 1
    /\ pc' = "search"
    /\ UNCHANGED << run, now, creds, file, exported, emitted, leads,
                    processed_ids, yielded, post, i, loaded, requests,
                    errors, collected, genCalls, skipped, startFile,
                    scoreVars, textVars, limit, scored >>

\* ListingRaises with the try around the whole loop: the error ends the search
ListingRaisesEndsSearch ==
    /\ pc = "iter"
    /\ errors' = errors \cup { sub }
    /\ sub' = NumSubs + 1
    /\ pc' = "search"
    /\ UNCHANGED << run, now, creds, file, exported, emitted, leads,
                    processed_ids, yielded, post, i, loaded, requests,
                    collected, genCalls, skipped, startFile, scoreVars,
                    textVars, limit, sleeps, scored >>

\* ListingRaises when the error undoes what this listing has contributed
ListingRaisesRollsBack ==
    LET Other(l) == l.subreddit # Subs[sub]
        kept == SelectSeq(leads, Other)
    IN  /\ pc = "iter"
        /\ errors' = errors \cup { sub }
        /\ leads' = kept
        /\ processed_ids' =
               loaded \cup { StrVal(kept[k].post_id) : k \in DOMAIN kept }
        /\ sub' = sub + 1
        /\ pc' = "search"
        /\ UNCHANGED << run, now, creds, file, exported, emitted, yielded,
                        post, i, loaded, requests, collected, genCalls,
                        skipped, startFile, scoreVars, textVars, limit,
                        sleeps, scored >>

\* the request or the iteration raises: except Exception, next subreddit
ListingRaises ==
    /\ pc = "iter"
    /\ errors' = errors \cup { sub }
    /\ sub' = sub + 1
    /\ pc' = "search"
    /\ UNCHANGED << run, now, creds, file, exported, emitted, leads,
                    processed_ids, yielded, post, i, loaded, requests,
                    collected, genCalls, skipped, startFile, scoreVars,
                    textVars, limit, sleeps, scored >>

\* return self.leads
SearchReturns ==
    /\ pc = "search"
    /\ sub > NumSubs
    /\ pc' = "searched"
    /\ UNCHANGED << run, now, creds, file, exported, emitted, leads,
                    processed_ids, sub, yielded, post, i, loaded, requests,
                    errors, collected, genCalls, skipped, startFile,
                    scoreVars, textVars, limit, sleeps, scored >>

(***************************************************************************)
(* main(): score, sort, enrich, persist.                                   *)
(***************************************************************************)
\* NoLeads when the processed ids are written before the return
NoLeadsSaves ==
    /\ pc = "searched"
    /\ Len(leads) = 0
    /\ file' = save_processed_ids(processed_ids)
    /\ pc' = "noleads"
    /\ UNCHANGED << run, now, creds, exported, emitted, leads,
                    processed_ids, sub, yielded, post, i, loaded, requests,
                    errors, collected, genCalls, skipped, startFile,
                    scoreVars, textVars, limit, sleeps, scored >>

\* if not leads: ... return
NoLeads ==
    /\ pc = "searched"
    /\ Len(leads) = 0
    /\ pc' = "noleads"
    /\ UNCHANGED << run, now, creds, file, exported, emitted, leads,
                    processed_ids, sub, yielded, post, i, loaded, requests,
                    errors, collected, genCalls, skipped, startFile,
                    scoreVars, textVars, limit, sleeps, scored >>

SomeLeads ==
    /\ pc = "searched"
    /\ Len(leads) > 0
    /\ i' = 1
    /\ pc' = "score"
    /\ UNCHANGED << run, now, creds, file, exported, emitted, leads,
                    processed_ids, sub, yielded, post, loaded, requests,
                    errors, collected, genCalls, skipped, startFile,
                    scoreVars, textVars, limit, sleeps, scored >>

\* lead['priority_score'] = score_lead(lead)
ScoreLead ==
    /\ pc = "score"
    /\ i <= Len(leads)
    /\ leads' = [ leads EXCEPT ![i].priority_score = score_lead(leads[i]) ]
    /\ scored' = Append(scored, leads[i].post_id)
    /\ i' = i + 1
    /\ UNCHANGED << pc, run, now, creds, file, exported, emitted,
                    processed_ids, sub, yielded, post, loaded, requests,
                    errors, collected, genCalls, skipped, startFile,
                    scoreVars, textVars, limit, sleeps >>

\* leads.sort(...); generator = GeminiMessageGenerator(GEMINI_API_KEY)
SortLeads ==
    /\ pc = "score"
    /\ i > Len(leads)
    /\ collected' = leads
    /\ leads' = SortDesc(leads)
    /\ i' = 1
    /\ pc' = "enrich"
    /\ UNCHANGED << run, now, creds, file, exported, emitted,
                    processed_ids, sub, yielded, post, loaded, requests,
                    errors, genCalls, skipped, startFile, scoreVars,
                    textVars, limit, sleeps, scored >>

\* NumToProcess without the cap: every lead gets a message
NumToProcessAll(ls) == Len(ls)

\* num_to_process = min(len(leads), 15)
NumToProcess(ls) == Min(Len(ls), limit)

RECURSIVE Strip(_)
\* str.strip() of blanks
Strip(t) ==
    IF Len(t) > 0 /\ SubSeq(t, 1, 1) = " " THEN Strip(SubSeq(t, 2, Len(t)))
    ELSE IF Len(t) > 0 /\ SubSeq(t, Len(t), Len(t)) = " "
         THEN Strip(SubSeq(t, 1, Len(t) - 1))
    ELSE t

\* generate_personalized_message when the except returns an empty text
generate_message_blank(o) == IF o.raised THEN "" ELSE Strip(o.text)

\* try: return response.text.strip() / except Exception as e: return f"..."
generate_personalized_message(o) ==
    IF o.raised THEN "Error generating message: " \o o.text ELSE Strip(o.text)

\* Generate when the enriched record goes back to the unscored state
GenerateUnscores(o) ==
    /\ pc = "enrich"
    /\ i <= NumToProcess(leads)
    /\ leads' = [ leads EXCEPT
                     ![i].generated_message = generate_personalized_message(o),
                     ![i].priority_score = 0 ]
    /\ genCalls' = Append(genCalls, [ post_id |-> leads[i].post_id,
                                      raised |-> o.raised ])
    /\ i' = i + 1
    /\ UNCHANGED << pc, run, now, creds, file, exported, emitted,
                    processed_ids, sub, yielded, post, loaded, requests,
                    errors, collected, skipped, startFile, scoreVars,
                    textVars, limit, sleeps, scored >>

\* Generate when the status of the enriched record is advanced as well
GenerateSetsStatus(o) ==
    /\ pc = "enrich"
    /\ i <= NumToProcess(leads)
    /\ leads' = [ leads EXCEPT
                     ![i].generated_message = generate_personalized_message(o),
                     ![i].status = "Drafted" ]
    /\ genCalls' = Append(genCalls, [ post_id |-> leads[i].post_id,
                                      raised |-> o.raised ])
    /\ i' = i + 1
    /\ UNCHANGED << pc, run, now, creds, file, exported, emitted,
                    processed_ids, sub, yielded, post, loaded, requests,
                    errors, collected, skipped, startFile, scoreVars,
                    textVars, limit, sleeps, scored >>

\* message = generator.generate_personalized_message(lead);
\* lead['generated_message'] = message; time.sleep(3)
Generate(o) ==
    /\ pc = "enrich"
    /\ i <= NumToProcess(leads)
    /\ leads' = [ leads EXCEPT
                     ![i].generated_message = generate_personalized_message(o) ]
    /\ genCalls' = Append(genCalls, [ post_id |-> leads[i].post_id,
                                      raised |-> o.raised ])
    /\ i' = i + 1
    /\ UNCHANGED << pc, run, now, creds, file, exported, emitted,
                    processed_ids, sub, yielded, post, loaded, requests,
                    errors, collected, skipped, startFile, scoreVars,
                    textVars, limit, sleeps, scored >>

\* ExportLeads when the export waits for a message on every lead
ExportLeadsWhenAll ==
    /\ pc = "enrich"
    /\ i > Len(leads)
    /\ exported' = leads
    /\ emitted' = [ id \in PoolIds |-> emitted[id] + CountId(leads, id) ]
    /\ pc' = "save"
    /\ UNCHANGED << run, now, creds, file, leads, processed_ids, sub,
                    yielded, post, i, loaded, requests, errors, collected,
                    genCalls, skipped, startFile, scoreVars, textVars,
                    limit, sleeps, scored >>

\* pd.DataFrame(leads).to_csv(output_file)
ExportLeads ==
    /\ pc = "enrich"
    /\ i > NumToProcess(leads)
    /\ exported' = leads
    /\ emitted' = [ id \in PoolIds |-> emitted[id] + CountId(leads, id) ]
    /\ pc' = "save"
    /\ UNCHANGED << run, now, creds, file, leads, processed_ids, sub,
                    yielded, post, i, loaded, requests, errors, collected,
                    genCalls, skipped, startFile, scoreVars, textVars,
                    limit, sleeps, scored >>

\* SaveProcessed when only the ids of leads that got a message are saved
SaveProcessedEnriched ==
    /\ pc = "save"
    /\ file' = save_processed_ids(
                    loaded \cup { StrVal(leads[k].post_id) :
                                     k \in { j \in DOMAIN leads :
                                                leads[j].generated_message # "" } })
    /\ pc' = "done"
    /\ UNCHANGED << run, now, creds, exported, emitted, leads,
                    processed_ids, sub, yielded, post, i, loaded, requests,
                    errors, collected, genCalls, skipped, startFile,
                    scoreVars, textVars, limit, sleeps, scored >>

\* pd.DataFrame({'post_id': list(finder.processed_ids)}).to_csv(...)
SaveProcessed ==
    /\ pc = "save"
    /\ file' = save_processed_ids(processed_ids)
    /\ pc' = "done"
    /\ UNCHANGED << run, now, creds, exported, emitted, leads,
                    processed_ids, sub, yielded, post, i, loaded, requests,
                    errors, collected, genCalls, skipped, startFile,
                    scoreVars, textVars, limit, sleeps, scored >>

\* the program is started again: a new process, the files are what is kept
NextRun ==
    /\ pc \in Terminal
    /\ run < MaxRuns
    /\ run' = run + 1
    /\ now' \in { now + g : g \in RunGaps }
    /\ creds' \in Credentials
    /\ pc' = "start"
    /\ leads' = << >>
    /\ processed_ids' = {}
    /\ sub' = 0
    /\ yielded' = 0
    /\ post' = << >>
    /\ i' = 0
    /\ startFile' = file
    /\ loaded' = {}
    /\ requests' = << >>
    /\ errors' = {}
    /\ collected' = << >>
    /\ genCalls' = << >>
    /\ exported' = << >>
    /\ skipped' = {}
    /\ sleeps' = 0
    /\ scored' = << >>
    /\ UNCHANGED << file, emitted, scoreVars, textVars, limit >>

\* the steps of one execution of main(), but for the body of the loop over
\* a listing
MainStep ==
    \/ CheckCredentials
    \/ ConstructRaises
    \/ Construct
    \/ RequestListing
    \/ \E p \in PostPool : Yield(p)
    \/ ListingEnds
    \/ Sleep
    \/ ListingRaises
    \/ SearchReturns
    \/ NoLeads
    \/ SomeLeads
    \/ ScoreLead
    \/ SortLeads
    \/ \E o \in GenOutcomes : Generate(o)
    \/ ExportLeads
    \/ SaveProcessed

Next ==
    \/ MainStep
    \/ ProcessPost
    \/ NextRun

Spec == Init /\ [][Next]_vars

\* ProcessPost is the one step enabled at "check", and it leaves "check"
BodyEnds == pc # "check"

\* no file, or the file of an earlier run that accepted every lead there is
PriorFiles ==
    { NoFile, save_processed_ids({ StrVal(id) : id \in { "abc123", "k7x", "77" } }) }

\* one execution of main()
InitLive ==
    /\ \E f \in PriorFiles : PipelineStart(f)
    /\ limit = EnrichLimit
    /\ ScoreIdle
    /\ TextIdle

NextLive ==
    \/ MainStep
    \/ ProcessPost

\* the interpreter executes the next statement of the run, the body of the
\* loop included (WF_vars(ProcessPost), stated by the place in the code);
\* the listing and the generator return or raise
SpecLive ==
    InitLive /\ [][NextLive]_vars /\ WF_vars(MainStep) /\ []<>BodyEnds

(***************************************************************************)
(* score_lead on its own, over the signals extract_lead_data can produce.  *)
(***************************************************************************)
RECURSIVE TopicsAt(_, _)
\* the topics whose position in topic_keywords is in S, in declared order
TopicsAt(k, S) ==
    IF k > Len(topic_keywords) THEN << >>
    ELSE (IF k \in S THEN << topic_keywords[k][1] >> ELSE << >>)
             \o TopicsAt(k + 1, S)

\* the lists extract_topics can return
TopicLists ==
    { IF S = {} THEN << "general mathematics" >> ELSE TopicsAt(1, S) :
          S \in SUBSET DOMAIN topic_keywords }

InitScore ==
    /\ PipelineInit
    /\ creds = [ client_id |-> TRUE, client_secret |-> TRUE,
                 user_agent |-> TRUE, gemini_api_key |-> TRUE ]
    /\ topicList \in TopicLists
    /\ \E u \in BOOLEAN, g \in BOOLEAN, m \in BOOLEAN, n \in 0..MaxComments :
           arg = [ is_urgent |-> u, is_parent |-> g, mentions_payment |-> m,
                   topics |-> Join(", ", topicList), num_comments |-> n ]
    /\ ret = << >>
    /\ limit = EnrichLimit
    /\ TextIdle

ApplyScore ==
    /\ ret = << >>
    /\ ret' = << score_lead(arg) >>
    /\ UNCHANGED << pipelineVars, arg, topicList, textVars >>

NextScore == ApplyScore

SpecScore == InitScore /\ [][NextScore]_vars

(***************************************************************************)
(* The enrichment loop, the export and the save on their own, with the     *)
(* code's cap of 15 and sorted lists shorter and longer than the cap.      *)
(***************************************************************************)
AllCredentials ==
    [ client_id |-> TRUE, client_secret |-> TRUE, user_agent |-> TRUE,
      gemini_api_key |-> TRUE ]

\* the k-th post of a listing of r/tutoring whose posts all are leads
EnrichPost(k) ==
    [ id |-> "p" \o FormatInt(k), subreddit |-> Subs[1],
      title |-> "online tutor wanted", selftext |-> "", author |-> "None",
      permalink |-> "/r/t/p" \o FormatInt(k), created_utc |-> FirstNow - 10,
      score |-> 1, num_comments |-> k ]

\* its record after the scoring loop
EnrichLead(k) ==
    LET lead == extract_lead_data(EnrichPost(k))
    IN  [ lead EXCEPT !.priority_score = score_lead(lead) ]

\* main() when leads.sort(...) has returned and the generator is built
InitEnrich ==
    /\ pc = "enrich"
    /\ run = 1
    /\ now = FirstNow
    /\ creds = AllCredentials
    /\ file = NoFile
    /\ exported = << >>
    /\ emitted = [ id \in PoolIds |-> 0 ]
    /\ \E n \in 1..MaxEnrichLeads :
           /\ leads = [ k \in 1..n |-> EnrichLead(k) ]
           /\ scored = [ k \in 1..n |-> EnrichPost(k).id ]
           /\ processed_ids = { StrVal(EnrichPost(k).id) : k \in 1..n }
    /\ collected = leads
    /\ sub = NumSubs + 1
    /\ yielded = 0
    /\ post = << >>
    /\ i = 1
    /\ startFile = NoFile
    /\ loaded = {}
    /\ requests = Subs
    /\ errors = {}
    /\ genCalls = << >>
    /\ skipped = {}
    /\ sleeps = NumSubs
    /\ limit = TopN
    /\ ScoreIdle
    /\ TextIdle

NextEnrich ==
    \/ \E o \in GenOutcomes : Generate(o)
    \/ ExportLeads
    \/ SaveProcessed

SpecEnrich == InitEnrich /\ [][NextEnrich]_vars

(***************************************************************************)
(* detect_grade_level and extract_topics on their own, over texts made of  *)
(* fragments that hold keywords of every level and topic, keywords inside  *)
(* other words, and no keyword.                                            *)
(***************************************************************************)
Fragments ==
    { "", "year 3", "Year 3", "primary school", "gcse", "igcse", "describe",
      "a-level", "grade 10", "algebra", "triangle", "important", "fractions",
      "median", "integral", "please help" }

\* the fragments of ws, joined by blanks
Texts ==
    UNION { { Join(" ", ws) : ws \in [ 1..n -> Fragments ] } :
                n \in 0..MaxFragments }

InitText ==
    /\ PipelineInit
    /\ creds = AllCredentials
    /\ limit = EnrichLimit
    /\ ScoreIdle
    /\ text \in Texts
    /\ detected = << >>

\* grade_level = self.detect_grade_level(post_text);
\* topics = self.extract_topics(post_text)
ApplyDetectors ==
    /\ detected = << >>
    /\ detected' = << detect_grade_level(text), extract_topics(text) >>
    /\ UNCHANGED << pipelineVars, scoreVars, text >>

NextText == ApplyDetectors

SpecText == InitText /\ [][NextText]_vars

(***************************************************************************)
(* Properties of score_lead, checked under SpecScore.                      *)
(***************************************************************************)
AllBonuses ==
    /\ arg.is_urgent
    /\ arg.is_parent
    /\ arg.mentions_payment
    /\ Len(topicList) > 1
    /\ arg.num_comments \in 1..5

NoSignal ==
    /\ ~arg.is_urgent
    /\ ~arg.is_parent
    /\ ~arg.mentions_payment
    /\ Len(topicList) = 1

\* C3: whatever the flags, the number of topics and the comment count,
\* score_lead returns an integer from 1 to 10, and the record that earns
\* every bonus (5+2+1+1+1+1 = 11) gets 10.
C3_ScoreInRange ==
    ret # << >> =>
        /\ ret[1] \in 1..10
        /\ AllBonuses => ret[1] = 10

C3_Witness == ret # << >> /\ AllBonuses

One(b) == IF b THEN 1 ELSE 0

ReferenceScore ==
    LET raw == 5 + 2 * One(arg.is_urgent)
                 + One(Len(topicList) > 1)
                 + One(arg.is_parent)
                 + One(arg.mentions_payment)
                 + One(1 <= arg.num_comments /\ arg.num_comments <= 5)
                 - One(arg.num_comments > 10)
    IN  IF raw < 1 THEN 1 ELSE IF raw > 10 THEN 10 ELSE raw

\* C4: score_lead equals clamp(5 + 2[urgent] + [more than one topic]
\* + [guardian] + [payment] + [1 <= comments <= 5] - [comments > 10], 1, 10);
\* a record without any signal scores 5 with 0 or 6..10 comments, whatever
\* its single topic is, and 4 with 15 comments.
C4_ScoreFormula ==
    ret # << >> =>
        /\ ret[1] = ReferenceScore
        /\ NoSignal /\ arg.num_comments \in { 0 } \cup (6..10) => ret[1] = 5
        /\ NoSignal /\ arg.num_comments = 15 => ret[1] = 4

C4_Witness ==
    /\ ret = << 4 >>
    /\ NoSignal
    /\ arg.num_comments = 15
    /\ arg.topics = "general mathematics"

(***************************************************************************)
(* Properties of the pipeline, checked under Spec.                         *)
(***************************************************************************)
LeadIds(ls) == { ls[k].post_id : k \in DOMAIN ls }

\* C1: over all runs, each reading the snapshot the run before it wrote, a
\* post id is carried by at most one exported lead record, and by at most
\* one record of the lead list of a run.
C1_AtMostOneLeadPerId ==
    \A id \in PoolIds : emitted[id] <= 1 /\ CountId(leads, id) <= 1

\* C2: processed_ids always contains what was loaded and is the loaded set
\* united with the ids of the leads accepted in the run; the snapshot a run
\* writes holds exactly the loaded identifiers and those of its leads.
C2_TrackerGrows ==
    /\ loaded \subseteq processed_ids
    /\ processed_ids = loaded \cup { StrVal(id) : id \in LeadIds(leads) }
    /\ pc = "done" =>
           /\ file.exists
           /\ file.rows = { CsvCell(v) : v \in loaded } \cup LeadIds(leads)

C2_Witness ==
    /\ pc = "done"
    /\ loaded = { StrVal("abc123") }
    /\ LeadIds(leads) = { "k7x" }
    /\ file.rows = { "abc123", "k7x" }

Sorted == pc \in { "enrich", "save", "done" }

\* the record as it was when it was sorted
Unenriched(l) == [ l EXCEPT !.generated_message = "" ]

PosCollected(l) == CHOOSE k \in DOMAIN collected : collected[k] = Unenriched(l)

SubIndex(name) == CHOOSE k \in DOMAIN Subs : Subs[k] = name

\* C5: once sorted, the lead list holds the accepted records, each once, in
\* non-increasing priority_score order, records of equal score in the order
\* in which they were collected; they were collected in the order of the
\* configured subreddits.
C5_StableDescendingSort ==
    Sorted =>
        /\ Len(leads) = Len(collected)
        /\ \A k \in DOMAIN leads :
               \E m \in DOMAIN collected : collected[m] = Unenriched(leads[k])
        /\ \A m \in DOMAIN collected :
               \E k \in DOMAIN leads : collected[m] = Unenriched(leads[k])
        /\ \A a, b \in DOMAIN leads :
               a < b =>
                   /\ leads[a].priority_score >= leads[b].priority_score
                   /\ leads[a].priority_score = leads[b].priority_score
                          => PosCollected(leads[a]) < PosCollected(leads[b])
        /\ \A a, b \in DOMAIN collected :
               a < b => SubIndex(collected[a].subreddit)
                            <= SubIndex(collected[b].subreddit)

C5_Witness ==
    /\ Sorted
    /\ Len(collected) = 3
    /\ << collected[1].post_id, collected[2].post_id, collected[3].post_id >>
           = << "k7x", "77", "abc123" >>
    /\ << leads[1].post_id, leads[2].post_id, leads[3].post_id >>
           = << "abc123", "k7x", "77" >>

InListing == pc \in { "iter", "check", "sleep" }

\* C6: an error of a listing is caught in search_posts: the subreddits are
\* asked for one after the other in the configured order whatever raised
\* before, an error leaves the run inside search_posts, and when
\* search_posts returns every configured subreddit has been asked for.
C6_ErrorsSkipOneSubreddit ==
    /\ requests = SubSeq(Subs, 1, Len(requests))
    /\ InListing => Len(requests) = sub
    /\ pc = "search" => Len(requests) = sub - 1
    /\ errors \subseteq 1..Len(requests)
    /\ errors # {} => pc \notin { "start", "construct", "aborted", "crashed" }
    /\ pc \in { "searched", "noleads", "score", "enrich", "save", "done" }
           => requests = Subs

C6_Witness == pc = "searched" /\ 1 \in errors /\ requests = Subs /\ leads # << >>

IsErrorMarker(m) ==
    Len(m) > 26 /\ SubSeq(m, 1, 26) = "Error generating message: "

\* C7: when the generator fails for a selected record, that record's
\* generated_message is an error marker, the generator is still called for
\* each selected record behind it, and the run exports all its records.
C7_GenerationFailureIsLocal ==
    /\ \A k \in DOMAIN genCalls :
           /\ genCalls[k].post_id = leads[k].post_id
           /\ genCalls[k].raised => IsErrorMarker(leads[k].generated_message)
    /\ pc = "enrich" => Len(genCalls) = i - 1
    /\ pc \in { "save", "done" } =>
           /\ Len(genCalls) = Min(Len(leads), limit)
           /\ exported = leads
           /\ Len(exported) = Len(collected)
    /\ genCalls # << >> => pc \in { "enrich", "save", "done" }

C7_Witness ==
    /\ pc = "done"
    /\ Len(genCalls) = 2
    /\ genCalls[1].raised
    /\ ~genCalls[2].raised
    /\ Len(exported) = 3

\* C8: a run in which no post is accepted ends with an empty lead list,
\* without scoring, without a call of the generator and without writing a
\* file: processed_leads.csv is as the run found it.  Only such a run ends
\* that way: the later stages run with at least one lead.
C8_NoLeadsNoEffects ==
    /\ pc = "searched" /\ leads = << >> => ENABLED NoLeads /\ ~ENABLED SomeLeads
    /\ pc = "noleads" =>
           /\ leads = << >>
           /\ collected = << >>
           /\ genCalls = << >>
           /\ exported = << >>
           /\ file = startFile
           /\ processed_ids = loaded
    /\ pc \in { "score", "enrich", "save", "done" } => leads # << >>

C8_Witness ==
    /\ pc = "noleads"
    /\ run = 2
    /\ file.exists
    /\ requests = Subs
    /\ skipped = { "old9", "k7x" }

\* C9: the step that skips a post as too old or as having no relevance
\* keyword changes neither leads nor processed_ids, and the post's id is not
\* in processed_ids afterwards.
C9_SkipLeavesNoTrace ==
    [][ ( /\ pc = "check"
          /\ ~IsDuplicate(post[1], processed_ids)
          /\ IsTooOld(post[1], now) \/ ~IsRelevant(post[1]) )
        => ( /\ leads' = leads
             /\ processed_ids' = processed_ids
             /\ StrVal(post[1].id) \notin processed_ids' ) ]_vars

\* an id that was skipped is the id of a lead accepted afterwards
C9_Witness == \E k \in DOMAIN leads : leads[k].post_id \in skipped

AnyRequiredMissing ==
    ~creds.client_id \/ ~creds.client_secret \/ ~creds.gemini_api_key

NothingDone ==
    /\ requests = << >>
    /\ leads = << >>
    /\ processed_ids = {}
    /\ loaded = {}
    /\ genCalls = << >>
    /\ exported = << >>
    /\ file = startFile

\* C10: with one of the credentials main() tests missing, the run ends
\* before the finder is built: no subreddit is asked for, the processed ids
\* are neither loaded nor changed, the generator is not called and no file
\* is written.  A missing user agent ends the run in the same way, when
\* the finder is built.
C10_MissingCredentialsAbort ==
    /\ AnyRequiredMissing => pc \in { "start", "aborted" } /\ NothingDone
    /\ ~creds.user_agent =>
           pc \in { "start", "aborted", "construct", "crashed" } /\ NothingDone

C10_Witness ==
    /\ pc = "aborted"
    /\ run = 2
    /\ file.exists
    /\ creds.client_id /\ creds.client_secret /\ ~creds.gemini_api_key

(***************************************************************************)
(* Properties of the enrichment loop, checked under SpecEnrich.            *)
(***************************************************************************)
\* C11: the generator is called once for each of the first min(15, number
\* of leads) records of the sorted list, in sorted order, and for no other
\* record; the records behind them are exported with generated_message
\* still empty.
C11_EnrichFirstNInOrder ==
    LET n == IF Len(leads) < TopN THEN Len(leads) ELSE TopN
        sorted == SortDesc(collected)
    IN  /\ Len(genCalls) <= n
        /\ \A k \in DOMAIN genCalls : genCalls[k].post_id = sorted[k].post_id
        /\ pc \in { "save", "done" } =>
               /\ Len(genCalls) = n
               /\ Len(exported) = Len(sorted)
               /\ \A k \in DOMAIN exported :
                      /\ exported[k].post_id = sorted[k].post_id
                      /\ k > n => exported[k].generated_message = ""

C11_Witness ==
    /\ pc = "done"
    /\ Len(leads) > TopN
    /\ Len(genCalls) = TopN
    /\ genCalls[TopN].post_id = "p15"
    /\ exported[TopN].generated_message # ""
    /\ exported[TopN + 1].generated_message = ""

(***************************************************************************)
(* Properties of the text detectors, checked under SpecText.               *)
(***************************************************************************)
\* level k of GRADE_KEYWORDS has a keyword that is a substring of t
HasLevel(k, t) ==
    \E j \in DOMAIN GRADE_KEYWORDS[k][2] : Contains(t, GRADE_KEYWORDS[k][2][j])

\* C12: detect_grade_level returns one of elementary, middle, high, unknown:
\* the first of the levels elementary, middle, high that has a keyword inside
\* the text, and unknown exactly when no level has one.
C12_FirstMatchingLevel ==
    detected # << >> =>
        LET g == detected[1]
        IN  /\ g \in { "elementary", "middle", "high", "unknown" }
            /\ g = "elementary" <=> HasLevel(1, text)
            /\ g = "middle" <=> ~HasLevel(1, text) /\ HasLevel(2, text)
            /\ g = "high" <=>
                   ~HasLevel(1, text) /\ ~HasLevel(2, text) /\ HasLevel(3, text)
            /\ g = "unknown" <=> \A k \in 1..3 : ~HasLevel(k, text)

\* "gcse" (middle) sits inside "igcse" (high), "ib" (high) inside "describe"
C12_Witness ==
    /\ text = "igcse describe"
    /\ detected # << >>
    /\ detected[1] = "middle"

\* topic k of topic_keywords has a keyword that is a substring of t
HasTopic(k, t) ==
    \E j \in DOMAIN topic_keywords[k][2] : Contains(t, topic_keywords[k][2][j])

\* C13: extract_topics returns a non-empty list without duplicates: the
\* topics that have a keyword inside the text, in the order of the table,
\* or, when there is none, the single entry "general mathematics".
C13_TopicsOrDefault ==
    detected # << >> =>
        LET t == detected[2]
            matched == { k \in DOMAIN topic_keywords : HasTopic(k, text) }
        IN  /\ Len(t) >= 1
            /\ \A a, b \in DOMAIN t : a # b => t[a] # t[b]
            /\ matched = {} => t = << "general mathematics" >>
            /\ matched # {} =>
                   /\ Len(t) = Cardinality(matched)
                   /\ \A a \in DOMAIN t :
                          \E k \in matched :
                             /\ t[a] = topic_keywords[k][1]
                             /\ Cardinality({ m \in matched : m < k }) = a - 1
            /\ (\E a \in DOMAIN t : t[a] = "general mathematics") =>
                   /\ Len(t) = 1
                   /\ matched = {}

\* the text names arithmetic before geometry, the table has geometry first;
\* "tan" (trigonometry) sits inside "important"
C13_Witness ==
    /\ text = "fractions triangle"
    /\ detected # << >>
    /\ detected[2] = << "geometry", "arithmetic" >>

(***************************************************************************)
(* Properties of whole runs, checked under Spec.                           *)
(***************************************************************************)
\* the scoring loop has written the score of leads[k]
ScoreWritten(k) ==
    \/ pc = "score" /\ k < i
    \/ pc \in { "enrich", "save", "done" }

\* C14: in every reachable state every record of the lead list has a
\* priority score from 1 to 10.
C14_ScoreAlwaysInRange ==
    \A k \in DOMAIN leads : leads[k].priority_score \in 1..10

\* C14, amended: a record of the lead list has priority score 0 from its
\* acceptance until the scoring loop reaches it and a priority score from
\* 1 to 10 from then on, so every sorted, enriched or exported record has
\* one from 1 to 10.
C14_ScoreInRangeOnceScored ==
    /\ \A k \in DOMAIN leads :
           IF ScoreWritten(k)
           THEN leads[k].priority_score \in 1..10
           ELSE leads[k].priority_score = 0
    /\ \A k \in DOMAIN exported : exported[k].priority_score \in 1..10

\* the post that earns every bonus (11 before the clamp) is exported with 10
C14_Witness ==
    /\ pc = "done"
    /\ Len(exported) = 3
    /\ exported[1].post_id = "abc123"
    /\ exported[1].priority_score = 10
    /\ exported[3].priority_score = 4

\* C15: the id of a record is in processed_ids from the moment the record
\* is accepted, and the file written at the end of the run holds the id of
\* every accepted record: of those whose message was generated, of those
\* whose generation failed and of those behind the cap that got no call.
C15_MarkedAtAcceptance ==
    /\ \A k \in DOMAIN leads : StrVal(leads[k].post_id) \in processed_ids
    /\ pc = "done" =>
           /\ file.exists
           /\ \A k \in DOMAIN leads : leads[k].post_id \in file.rows

\* one run with a failed call, a successful call and a lead without a call
C15_Witness ==
    /\ pc = "done"
    /\ Len(leads) = 3
    /\ Len(genCalls) = 2
    /\ genCalls[1].raised
    /\ ~genCalls[2].raised
    /\ leads[3].generated_message = ""
    /\ { leads[k].post_id : k \in 1..3 } \subseteq file.rows

\* C16: between the requests for two consecutive subreddits the run sleeps,
\* whether the earlier listing ended or raised: a run that has made n
\* requests has slept at least n - 1 times.
C16_DelayBetweenRequests == Len(requests) <= sleeps + 1

\* the ids of the records of ls, in order
IdsOf(ls) == [ k \in DOMAIN ls |-> ls[k].post_id ]

\* C17: priority_score is written once per accepted record, in a loop that
\* starts when the collection has ended and ends before the sort; from the
\* sort on, through enrichment, export and save, every record keeps the
\* score it was sorted with.
C17_ScoredOnceBeforeSort ==
    /\ pc \in { "start", "construct", "search", "iter", "check", "sleep",
                "searched", "aborted", "crashed", "noleads" } =>
           scored = << >>
    /\ pc = "score" => scored = SubSeq(IdsOf(leads), 1, i - 1)
    /\ pc \in { "enrich", "save", "done" } =>
           /\ scored = IdsOf(collected)
           /\ Len(leads) = Len(collected)
           /\ \A k \in DOMAIN leads :
                  \E j \in DOMAIN collected :
                     /\ collected[j].post_id = leads[k].post_id
                     /\ collected[j].priority_score = leads[k].priority_score
    /\ pc \in { "save", "done" } =>
           \A k \in DOMAIN leads :
              exported[k].priority_score = leads[k].priority_score

C17_Witness ==
    /\ pc = "done"
    /\ scored = << "k7x", "77", "abc123" >>
    /\ IdsOf(exported) = << "abc123", "k7x", "77" >>
    /\ exported[1].priority_score = 10
    /\ genCalls[1].raised

(***************************************************************************)
(* Termination, checked under SpecLive.                                    *)
(***************************************************************************)
\* the run has exported its leads and written the processed ids
Persisted ==
    /\ pc = "done"
    /\ exported = leads
    /\ file = save_processed_ids(processed_ids)

\* the run has ended with no score written, no generator call, no export
\* and the file as it was
EndedEarly ==
    /\ pc = "noleads"
    /\ scored = << >>
    /\ genCalls = << >>
    /\ exported = << >>
    /\ file = startFile

\* C18: every started run reaches a terminal state; when its search has
\* returned at least one lead the run goes on to the end of the persist
\* stage, when it has returned none the run ends without scoring,
\* enriching or persisting.
C18_RunsTerminate ==
    /\ (pc = "start") ~> (pc \in Terminal)
    /\ (pc = "searched" /\ leads # << >>) ~> Persisted
    /\ (pc = "searched" /\ leads = << >>) ~> EndedEarly

\* a run in which every listing raised has persisted its leads
C18_Witness ==
    /\ Persisted
    /\ errors = 1..NumSubs
    /\ Len(leads) = 2

(***************************************************************************)
(* Frame properties of whole runs, checked under Spec.                     *)
(***************************************************************************)
Collecting == pc \in { "search", "iter", "check", "sleep" }

\* this step is the error of the listing of subreddit sub
ListingRaised == pc = "iter" /\ sub \in errors' /\ sub \notin errors

\* C19: the step in which a listing raises leaves the lead list and
\* processed_ids as they are and ends that listing; while the search goes
\* on the lead list only grows at its end and processed_ids only grows, so
\* what was accepted before the error is sorted, exported with a score and
\* saved, and nothing else of that listing is accepted or marked.
C19_ErrorKeepsEarlierLeads ==
    /\ [][ListingRaised =>
              /\ leads' = leads
              /\ processed_ids' = processed_ids
              /\ pc' = "search"
              /\ sub' = sub + 1]_vars
    /\ [][Collecting =>
              /\ Len(leads') >= Len(leads)
              /\ SubSeq(leads', 1, Len(leads)) = leads
              /\ processed_ids \subseteq processed_ids'
              /\ \A k \in (Len(leads) + 1)..Len(leads') :
                     /\ pc = "check"
                     /\ leads'[k].post_id = post[1].id
                     /\ leads'[k].subreddit = Subs[sub]]_vars
    /\ [](Sorted => IdsOf(collected) = scored)
    /\ [](pc = "done" =>
              \A k \in DOMAIN collected :
                 /\ collected[k].post_id \in file.rows
                 /\ \E j \in DOMAIN exported :
                        /\ exported[j].post_id = collected[k].post_id
                        /\ exported[j].priority_score \in 1..10)

\* the first listing raised after one post, and its lead is in the export
C19_Witness ==
    /\ pc = "done"
    /\ errors = { 1 }
    /\ Len(exported) = 2
    /\ \E k \in DOMAIN exported :
           /\ exported[k].subreddit = Subs[1]
           /\ exported[k].post_id \in file.rows
    /\ \E k \in DOMAIN exported : exported[k].subreddit = Subs[2]

\* what a step from the sort to the end of the run may change
MessageOnly ==
    /\ processed_ids' = processed_ids
    /\ Len(leads') = Len(leads)
    /\ \A k \in DOMAIN leads :
           /\ Unenriched(leads'[k]) = Unenriched(leads[k])
           /\ leads'[k] # leads[k] => (pc = "enrich" /\ k = i /\ k <= limit)

\* C20: the steps from the sort to the end of the run leave processed_ids,
\* the length and order of the lead list and every field but
\* generated_message as they are, and generated_message changes only in the
\* record the enrichment loop is at; the export is the lead list as it is
\* then: every accepted record, in sorted order, those with an error marker
\* for a message included.
C20_EnrichmentWritesMessagesOnly ==
    /\ [][Sorted /\ pc # "done" => MessageOnly]_vars
    /\ [](Sorted =>
              /\ [ k \in DOMAIN leads |-> Unenriched(leads[k]) ]
                     = SortDesc(collected)
              /\ processed_ids =
                     loaded \cup { StrVal(collected[k].post_id) :
                                      k \in DOMAIN collected })
    /\ [](pc \in { "save", "done" } => exported = leads)

C20_Witness ==
    /\ pc = "save"
    /\ Len(exported) = 3
    /\ IsErrorMarker(exported[2].generated_message)
    /\ exported[1].generated_message = "Happy to help, DM me for a free trial."
    /\ exported[3] \in { collected[k] : k \in DOMAIN collected }

====
